---- MODULE Spec2Model ----
(***************************************************************************)
(* A model of the dashboard shell of saas-starter-kit: the DashboardHeader *)
(* component (scroll offset state, scroll listener, computed classes), the *)
(* DashboardSidebar menu, the dashboard pages and route layouts, and the    *)
(* NextAuth configuration.                                                  *)
(*                                                                          *)
(* Two specifications share the module: SpecHeader (instances of            *)
(* DashboardHeader on one document) and SpecApp (navigation, session and    *)
(* rendering of the pages).  Each pins the other's variables.               *)
(***************************************************************************)
EXTENDS Integers, Sequences, FiniteSets, TLC

VARIABLES
    \* ---- DashboardHeader instances and the document they listen on ----
    mounted,        \* mounted[i]: instance i is in the tree
    props,          \* props[i]: [host, fixed, className] the instance was rendered with
    offset,         \* offset[i]: the useState value of header.tsx:14
    queue,          \* queue[i]: setOffset updates scheduled and not yet rendered
    cleanup,        \* cleanup[i]: the onScroll closure the effect's cleanup holds
    listeners,      \* the document's event listener list
    bodyScrollTop,  \* document.body.scrollTop
    docScrollTop,   \* document.documentElement.scrollTop
    seen,           \* history: seen[i], an event was delivered to i since it mounted
    \* ---- pages, navigation, session ----
    menu,           \* DASHBOARD_MENU
    session,        \* the visitor's session
    path,           \* the URL the visitor is on
    view,           \* what the route rendered
    prismaAccess,   \* import paths through which the Prisma client was obtained
    sidebarState    \* the state SidebarProvider holds: the sidebar's data-state

headerVars == <<mounted, props, offset, queue, cleanup, listeners,
                bodyScrollTop, docScrollTop, seen>>
appVars == <<menu, session, path, view, prismaAccess, sidebarState>>
vars == <<mounted, props, offset, queue, cleanup, listeners,
          bodyScrollTop, docScrollTop, seen,
          menu, session, path, view, prismaAccess, sidebarState>>

------------------------------------------------------------------------------
\* Bounds of the model.

MaxInstances == 2
MaxPending == 2
MaxClosures == 2
MaxMenuLen == 2

\* offset > 10 (header.tsx:33)
ShadowThreshold == 10

Instances == 1..MaxInstances

\* Scroll positions the browser may report: body is 0 in standards mode and
\* non-zero when body is the scroll container; the two are independent.
BodyScrollTops == {0, ShadowThreshold + 1}
DocScrollTops == {0, ShadowThreshold}

------------------------------------------------------------------------------
\* DashboardHeader (header.tsx)

\* The values a `fixed?: boolean` prop can take.
FixedValues == {"undefined", "false", "true"}

\* JavaScript truthiness of the prop.
Truthy(v) == v = "true"

\* document.body.scrollTop || document.documentElement.scrollTop
ScrollTopRead(b, d) == IF b # 0 THEN b ELSE d

BaseClasses == <<"bg-background", "flex", "h-16", "items-center", "gap-3", "p-4", "sm:gap-4">>

FixedClasses == <<"header-fixed", "peer/header", "fixed", "z-50", "w-[inherit]", "rounded-md">>

\* fixed && "header-fixed peer/header fixed z-50 w-[inherit] rounded-md":
\* a falsy argument of cn() contributes no class.
FixedPart(fixed) == IF Truthy(fixed) THEN FixedClasses ELSE <<>>

\* Mutant of ShadowClass: the comparison written >=.
ShadowClassAtThreshold(fixed, off) == IF off >= ShadowThreshold /\ Truthy(fixed) THEN "shadow-sm" ELSE "shadow-none"

\* offset > 10 && fixed ? "shadow-sm" : "shadow-none"
ShadowClass(fixed, off) == IF off > ShadowThreshold /\ Truthy(fixed) THEN "shadow-sm" ELSE "shadow-none"

\* The first three arguments of cn(): the classes the component computes.
OwnClasses(fixed, off) == BaseClasses \o FixedPart(fixed) \o <<ShadowClass(fixed, off)>>

\* cn(own..., className): the caller's classes come last.
HeaderClassName(fixed, off, className) == OwnClasses(fixed, off) \o className

------------------------------------------------------------------------------
\* Where DashboardHeader is rendered.

\* The two DashboardPage modules of the repository.
DashboardPages == {"part_003", "part_004"}

\* Mutant of PageFixedProp: the pages render <DashboardHeader fixed>.
PageFixedPropTrue == "true"

\* <DashboardHeader> in both pages: no `fixed` attribute.
PageFixedProp == "undefined"

\* <DashboardHeader> in both pages: no `className` attribute.
PageClassName == <<>>

\* The props a DashboardPage renders its header with.
DashboardPageHeaderProps(page) == [host |-> page, fixed |-> PageFixedProp, className |-> PageClassName]

\* Any other caller of the exported component passing `fixed`.
OtherHeaderProps == {[host |-> "other", fixed |-> f, className |-> <<>>] : f \in FixedValues \ {"undefined"}}

HeaderUsages == {DashboardPageHeaderProps(p) : p \in DashboardPages} \cup OtherHeaderProps

NoProps == [host |-> "none", fixed |-> "undefined", className |-> <<>>]

------------------------------------------------------------------------------
\* The document's listener list.  An entry is identified by (type, callback,
\* capture); `passive` is not part of the identity.

NoClosure == <<0, 0>>

Closures == Instances \X (1..MaxClosures)

\* The instance whose render created closure c.
OwnerOf(c) == c[1]

\* document.addEventListener(type, cb, { passive: true }): capture is false;
\* an entry equal to an existing one is not added twice.
AddEventListener(ls, type, cb) == ls \cup {[type |-> type, callback |-> cb, capture |-> FALSE]}

\* document.removeEventListener(type, cb): capture defaults to false.
RemoveEventListener(ls, type, cb) == ls \ {[type |-> type, callback |-> cb, capture |-> FALSE]}

\* Mutant of EffectCleanup: the cleanup drops every scroll listener of the
\* document, not only its own.
EffectCleanupAllScroll(ls, cb) == {l \in ls : l.type # "scroll"}

\* The cleanup the effect returns: () => document.removeEventListener("scroll", onScroll)
EffectCleanup(ls, cb) == RemoveEventListener(ls, "scroll", cb)

\* Each run of the effect creates a new onScroll closure: one that is not an
\* entry of the listener list.
FreshClosures(i) == {c \in Closures : OwnerOf(c) = i /\ \A l \in listeners : l.callback # c}

NewClosure(i) ==
    IF FreshClosures(i) = {} THEN <<i, MaxClosures>>
    ELSE CHOOSE c \in FreshClosures(i) : \A d \in FreshClosures(i) : c[2] <= d[2]

\* useEffect(setup, []) on first render: setup registers the new onScroll.
EffectOnMount(ls, i) == AddEventListener(ls, "scroll", NewClosure(i))

\* Mutant of EffectOnRerender: the listener is registered by every render and
\* the earlier one is left in place.
EffectOnRerenderRegisters(ls, rendered) ==
    ls \cup {[type |-> "scroll", callback |-> NewClosure(i), capture |-> FALSE] : i \in rendered}

\* useEffect(setup, []) when the instances in `rendered` render again: the
\* dependency list is empty, so neither cleanup nor setup runs.
EffectOnRerender(ls, rendered) == ls

\* The scroll listeners registered for instance i.
ListenersOf(i) == {l \in listeners : l.type = "scroll" /\ OwnerOf(l.callback) = i}

\* Mutant of ApplyUpdates: the first scheduled update wins.
ApplyUpdatesKeepFirst(state, q) == IF q = <<>> THEN state ELSE Head(q)

\* React's state reducer for setOffset(value): each update replaces the state,
\* in the order the updates were scheduled.
RECURSIVE ApplyUpdates(_, _)
ApplyUpdates(state, q) == IF q = <<>> THEN state ELSE ApplyUpdates(Head(q), Tail(q))

InitHeaderVars ==
    /\ mounted = [i \in Instances |-> FALSE]
    /\ props = [i \in Instances |-> NoProps]
    /\ offset = [i \in Instances |-> 0]
    /\ queue = [i \in Instances |-> <<>>]
    /\ cleanup = [i \in Instances |-> NoClosure]
    /\ listeners = {}
    /\ bodyScrollTop = 0
    /\ docScrollTop = 0
    /\ seen = [i \in Instances |-> FALSE]

\* First render of an instance: useState(0), then the effect registers onScroll.
Mount(i) ==
    /\ ~mounted[i]
    /\ FreshClosures(i) # {}
    /\ \E u \in HeaderUsages :
        props' = [props EXCEPT ![i] = u]
    /\ mounted' = [mounted EXCEPT ![i] = TRUE]
    /\ offset' = [offset EXCEPT ![i] = 0]
    /\ queue' = [queue EXCEPT ![i] = <<>>]
    /\ listeners' = EffectOnMount(listeners, i)
    /\ cleanup' = [cleanup EXCEPT ![i] = NewClosure(i)]
    /\ seen' = [seen EXCEPT ![i] = FALSE]
    /\ UNCHANGED <<bodyScrollTop, docScrollTop>>
    /\ UNCHANGED appVars

\* The parent renders the instance again with other props.  The dependency
\* list is empty, so the effect does not run again.
Rerender(i) ==
    /\ mounted[i]
    /\ props[i].host = "other"
    /\ \E u \in OtherHeaderProps :
        /\ u # props[i]
        /\ props' = [props EXCEPT ![i] = u]
    /\ listeners' = EffectOnRerender(listeners, {i})
    /\ UNCHANGED <<mounted, offset, queue, cleanup, bodyScrollTop, docScrollTop, seen>>
    /\ UNCHANGED appVars

\* The instances whose onScroll the document calls for a scroll event.
Called == {i \in Instances : ListenersOf(i) # {}}

\* onScroll of the closures registered for instance i, the document being at
\* (b, d): each calls setOffset(read).  React drops an update for a component
\* that is no longer mounted.
OnScroll(q, i, b, d) ==
    IF mounted[i]
    THEN q \o [k \in 1..Cardinality(ListenersOf(i)) |-> ScrollTopRead(b, d)]
    ELSE q

\* The document scrolls to (b, d) and the browser dispatches the scroll event:
\* every registered listener runs and reads the positions.
Scroll(b, d) ==
    /\ \A i \in Called : Len(queue[i]) + Cardinality(ListenersOf(i)) <= MaxPending
    /\ bodyScrollTop' = b
    /\ docScrollTop' = d
    /\ queue' = [i \in Instances |-> IF i \in Called THEN OnScroll(queue[i], i, b, d) ELSE queue[i]]
    /\ seen' = [i \in Instances |-> seen[i] \/ (i \in Called /\ mounted[i])]
    /\ UNCHANGED <<mounted, props, offset, cleanup, listeners>>
    /\ UNCHANGED appVars

\* React renders the scheduled updates: every instance with pending setOffset
\* calls re-renders in the same pass.  The effect does not run again.
Flush ==
    /\ \E i \in Instances : queue[i] # <<>>
    /\ offset' = [i \in Instances |-> ApplyUpdates(offset[i], queue[i])]
    /\ queue' = [i \in Instances |-> <<>>]
    /\ listeners' = EffectOnRerender(listeners, {i \in Instances : queue[i] # <<>>})
    /\ UNCHANGED <<mounted, props, cleanup, bodyScrollTop, docScrollTop, seen>>
    /\ UNCHANGED appVars

\* The instance leaves the tree: the effect's cleanup runs, state is dropped.
Unmount(i) ==
    /\ mounted[i]
    /\ listeners' = EffectCleanup(listeners, cleanup[i])
    /\ cleanup' = [cleanup EXCEPT ![i] = NoClosure]
    /\ mounted' = [mounted EXCEPT ![i] = FALSE]
    /\ props' = [props EXCEPT ![i] = NoProps]
    /\ offset' = [offset EXCEPT ![i] = 0]
    /\ queue' = [queue EXCEPT ![i] = <<>>]
    /\ seen' = [seen EXCEPT ![i] = FALSE]
    /\ UNCHANGED <<bodyScrollTop, docScrollTop>>
    /\ UNCHANGED appVars

NextHeader ==
    \/ \E i \in Instances : Mount(i)
    \/ \E i \in Instances : Rerender(i)
    \/ \E b \in BodyScrollTops, d \in DocScrollTops : Scroll(b, d)
    \/ Flush
    \/ \E i \in Instances : Unmount(i)

------------------------------------------------------------------------------
\* DashboardSidebar (sidebar.tsx) and the dashboard pages.

\* The entries DASHBOARD_MENU may hold: { title, url, icon }.
MenuTitles == {"Overview", "Settings"}
MenuUrls == {"/dashboard", "/docs"}
MenuIcons == {"HomeIcon", "SettingsIcon"}
MenuEntries == [title : MenuTitles, url : MenuUrls, icon : MenuIcons]

RECURSIVE SeqsUpTo(_, _)
SeqsUpTo(S, n) ==
    IF n = 0 THEN {<<>>}
    ELSE SeqsUpTo(S, n - 1) \cup {Append(q, e) : q \in {r \in SeqsUpTo(S, n - 1) : Len(r) = n - 1}, e \in S}

Menus == SeqsUpTo(MenuEntries, MaxMenuLen)

NoUser == [name |-> "", email |-> "", avatar |-> ""]

\* Mutant of SidebarUser: the profile shows who is signed in.
SidebarUserFromSession ==
    IF session.user = "" THEN [name |-> "John Doe", email |-> "6Kt0P@example.com", avatar |-> "https://github.com/brunorocha.png"]
    ELSE [name |-> session.user, email |-> session.user, avatar |-> ""]

\* const user = { name, email, avatar } in DashboardSidebar.
SidebarUser == [name |-> "John Doe", email |-> "6Kt0P@example.com", avatar |-> "https://github.com/brunorocha.png"]

\* const user = { name, email, avatar } in DashboardPage (part_003).
PageUser == [name |-> "John Doe", email |-> "6Kt0P@example.com", avatar |-> "https://github.com/brunorocha.png"]

\* Mutant of RenderMenu: the items come out in reverse order.
RenderMenuReversed(m) == [i \in 1..Len(m) |-> [key |-> m[Len(m) + 1 - i].title, href |-> m[Len(m) + 1 - i].url, icon |-> m[Len(m) + 1 - i].icon, label |-> m[Len(m) + 1 - i].title]]

\* DASHBOARD_MENU.map(item => <SidebarMenuItem key={item.title}> ... ): one
\* item per entry, in the entries' order.
RenderMenu(m) == [i \in 1..Len(m) |-> [key |-> m[i].title, href |-> m[i].url, icon |-> m[i].icon, label |-> m[i].title]]

\* <Sidebar>: header link, content group, footer profile menu.
DashboardSidebar(m) ==
    [brand |-> [href |-> "/dashboard", icon |-> "LayoutDashboardIcon", label |-> "App name"],
     content |-> RenderMenu(m),
     footer |-> [user |-> SidebarUser, side |-> "right"]]

NoSidebar ==
    [brand |-> [href |-> "", icon |-> "", label |-> ""],
     content |-> <<>>,
     footer |-> [user |-> NoUser, side |-> ""]]

\* DashboardPage: part_003 puts a ProfileDropdown in the header, part_004 an
\* empty header; both render <DashboardMain>Dashboard</DashboardMain>.
DashboardPage(page) ==
    [page |-> page,
     header |-> DashboardPageHeaderProps(page),
     profile |-> IF page = "part_003" THEN [user |-> PageUser, side |-> "bottom"]
                 ELSE [user |-> NoUser, side |-> ""],
     main |-> "Dashboard"]

\* A page of the public group; only its layout is in the repository.
PublicPage(url) ==
    [page |-> "public",
     header |-> NoProps,
     profile |-> [user |-> NoUser, side |-> ""],
     main |-> url]

\* The links of PublicHeader, in document order.
PublicHeaderLinks == <<"/", "/features", "/pricing", "/docs", "/signin", "/signup", "/dashboard">>

\* A class of the form variant:utility; a class without a variant has "".
Class(variant, utility) == [variant |-> variant, utility |-> utility]

\* Mutant of ContentClasses: the second width is keyed on collapsed too.
ContentClassesBothCollapsed ==
    << Class("", "ml-auto"), Class("", "w-full"), Class("", "max-w-full"),
       Class("peer-data-[state=collapsed]", "w-[calc(100%-var(--sidebar-width-icon)-1rem)]"),
       Class("peer-data-[state=collapsed]", "w-[calc(100%-var(--sidebar-width))]"),
       Class("sm", "transition-[width]"), Class("sm", "duration-200"), Class("sm", "ease-linear"),
       Class("", "flex"), Class("", "h-svh"), Class("", "flex-col"),
       Class("group-data-[scroll-locked=1]/body", "h-full"),
       Class("has-[main.fixed-main]:group-data-[scroll-locked=1]/body", "h-svh") >>

\* The cn(...) of div#content, in the order written.
ContentClasses ==
    << Class("", "ml-auto"), Class("", "w-full"), Class("", "max-w-full"),
       Class("peer-data-[state=collapsed]", "w-[calc(100%-var(--sidebar-width-icon)-1rem)]"),
       Class("peer-data-[state=expanded]", "w-[calc(100%-var(--sidebar-width))]"),
       Class("sm", "transition-[width]"), Class("sm", "duration-200"), Class("sm", "ease-linear"),
       Class("", "flex"), Class("", "h-svh"), Class("", "flex-col"),
       Class("group-data-[scroll-locked=1]/body", "h-full"),
       Class("has-[main.fixed-main]:group-data-[scroll-locked=1]/body", "h-svh") >>

\* The children of <SidebarProvider>, in document order: the sidebar, then
\* div#content holding {children}.
DashboardLayoutTree(children) ==
    << [node |-> "DashboardSidebar", id |-> "", classes |-> <<>>, children |-> <<>>],
       [node |-> "div", id |-> "content", classes |-> ContentClasses, children |-> <<children>>] >>

\* The states the sidebar of ui/sidebar exposes as data-state on its `peer`
\* root element.
SidebarStates == {"expanded", "collapsed"}

\* SidebarProvider without defaultOpen: the sidebar starts expanded.
SidebarDefaultState == "expanded"

\* toggleSidebar of SidebarProvider.
Toggled(st) == IF st = "expanded" THEN "collapsed" ELSE "expanded"

\* The data-state of the peer before child k of `tree`: the sidebar's, when
\* the sidebar is an earlier sibling.
PeerStateBefore(tree, k, st) ==
    IF \E j \in 1..(k - 1) : tree[j].node = "DashboardSidebar" THEN st ELSE "none"

\* The peer-data-[state=...] width utilities of child k that apply while the
\* sidebar's data-state is st.
AppliedPeerWidths(tree, k, st) ==
    {tree[k].classes[c].utility : c \in {x \in 1..Len(tree[k].classes) :
        tree[k].classes[x].variant = "peer-data-[state=" \o PeerStateBefore(tree, k, st) \o "]"}}

\* DashboardLayout: <SidebarProvider><DashboardSidebar/><div id="content">{children}</div>
DashboardLayout(m, children) ==
    [layout |-> "dashboard", sidebar |-> DashboardSidebar(m), content |-> children,
     tree |-> DashboardLayoutTree(children)]

\* Layout of the dashboard route (part_001): DashboardLayout around the page,
\* nothing else.
DashboardRouteLayout(m, children) == DashboardLayout(m, children)

\* Layout of the public routes (part_002): PublicLayout around the page.
PublicRouteLayout(children) == [layout |-> "public", sidebar |-> NoSidebar, content |-> children, tree |-> <<>>]

Range(q) == {q[i] : i \in 1..Len(q)}

\* URLs a visitor can ask for: the links of the public header, the menu's, and
\* the login URL of the project rules.
Urls == Range(PublicHeaderLinks) \cup MenuUrls \cup {"/login"}

\* What a request for `url` renders: /dashboard is the dashboard route, served
\* by one of the two DashboardPage modules; every other URL is a public page.
RenderRoute(m, url, page) ==
    IF url = "/dashboard"
    THEN DashboardRouteLayout(m, DashboardPage(page))
    ELSE PublicRouteLayout(PublicPage(url))

\* The sidebar state after a request for `url`: the dashboard layout stays
\* mounted between dashboard pages and keeps its provider's state; it starts
\* from the default when it mounts, and there is none on a public page.
SidebarStateAfter(v, st, url) ==
    IF url # "/dashboard" THEN "none"
    ELSE IF v.layout = "dashboard" THEN st
    ELSE SidebarDefaultState

\* The links the rendered view offers.
LinksOf(v) ==
    IF v.layout = "public" THEN Range(PublicHeaderLinks)
    ELSE {v.sidebar.brand.href} \cup {v.sidebar.content[i].href : i \in 1..Len(v.sidebar.content)}

------------------------------------------------------------------------------
\* NextAuth configuration (part_005, lines 1-9).

\* import { prisma } from "@/shared/lib/prisma"
AuthPrismaImport == "@/shared/lib/prisma"

\* PrismaAdapter(prisma)
PrismaAdapter(client) == [kind |-> "PrismaAdapter", client |-> client]

\* Mutant of AuthProviders: a second provider is configured.
AuthProvidersWithGithub == <<"google", "github">>

\* providers: [Google]
AuthProviders == <<"google">>

\* NextAuth({ adapter, providers }): the one configuration behind handlers,
\* signIn, signOut and auth.
AuthConfig == [adapter |-> PrismaAdapter(AuthPrismaImport), providers |-> AuthProviders]

\* Identity providers a sign-in request may name.
IdentityProviders == {"google", "github", "credentials"}

Users == {"alice", "bob"}

NoAdapter == [kind |-> "none", client |-> ""]

NoSession == [user |-> "", provider |-> "", strategy |-> "", adapter |-> NoAdapter]

\* With an adapter configured, sessions are database sessions kept through it.
NewSession(config, user, provider) ==
    [user |-> user, provider |-> provider, strategy |-> "database", adapter |-> config.adapter]

InitAppVars ==
    /\ menu = <<>>
    /\ session = NoSession
    /\ path = "/"
    /\ view = RenderRoute(<<>>, "/", "part_003")
    /\ prismaAccess = {}
    /\ sidebarState = "none"

\* The visitor enters a URL.
Visit(url, page) ==
    /\ path' = url
    /\ view' = RenderRoute(menu, url, page)
    /\ sidebarState' = SidebarStateAfter(view, sidebarState, url)
    /\ UNCHANGED <<menu, session, prismaAccess>>
    /\ UNCHANGED headerVars

\* The visitor follows a link of the rendered view.
ClickLink(href, page) ==
    /\ href \in LinksOf(view)
    /\ path' = href
    /\ view' = RenderRoute(menu, href, page)
    /\ sidebarState' = SidebarStateAfter(view, sidebarState, href)
    /\ UNCHANGED <<menu, session, prismaAccess>>
    /\ UNCHANGED headerVars

\* signIn(provider): only a configured provider signs anyone in.  Evaluating
\* the configuration module imports the Prisma client.
SignIn(provider, user) ==
    /\ provider \in Range(AuthConfig.providers)
    /\ session' = NewSession(AuthConfig, user, provider)
    /\ prismaAccess' = prismaAccess \cup {AuthConfig.adapter.client}
    /\ UNCHANGED <<menu, path, view, sidebarState>>
    /\ UNCHANGED headerVars

\* signOut()
SignOut ==
    /\ session # NoSession
    /\ session' = NoSession
    /\ prismaAccess' = prismaAccess \cup {AuthConfig.adapter.client}
    /\ UNCHANGED <<menu, path, view, sidebarState>>
    /\ UNCHANGED headerVars

\* The visitor presses the SidebarTrigger of the page's header.
ToggleSidebar ==
    /\ view.layout = "dashboard"
    /\ view.content.header # NoProps
    /\ sidebarState' = Toggled(sidebarState)
    /\ UNCHANGED <<menu, session, path, view, prismaAccess>>
    /\ UNCHANGED headerVars

NextApp ==
    \/ \E url \in Urls, page \in DashboardPages : Visit(url, page)
    \/ \E href \in Urls, page \in DashboardPages : ClickLink(href, page)
    \/ \E provider \in IdentityProviders, user \in Users : SignIn(provider, user)
    \/ SignOut
    \/ ToggleSidebar

------------------------------------------------------------------------------
\* Specifications.

InitHeader == InitHeaderVars /\ InitAppVars

InitApp ==
    /\ InitHeaderVars
    /\ menu \in Menus
    /\ session = NoSession
    /\ path = "/"
    /\ view = RenderRoute(menu, "/", "part_003")
    /\ prismaAccess = {}
    /\ sidebarState = "none"

SpecHeader == InitHeader /\ [][NextHeader]_vars

SpecApp == InitApp /\ [][NextApp]_vars

------------------------------------------------------------------------------
\* Properties of the sidebar, the pages and the authentication configuration
\* (under SpecApp).

\* C1: the content group of the rendered sidebar holds one item per entry of
\* DASHBOARD_MENU, in the entries' order; the i-th item links to the i-th
\* entry's url and shows its title and icon.
C1_MenuOneItemPerEntry ==
    view.layout = "dashboard" =>
        LET items == view.sidebar.content IN
        /\ Len(items) = Len(menu)
        /\ \A i \in 1..Len(menu) :
            /\ items[i].href = menu[i].url
            /\ items[i].label = menu[i].title
            /\ items[i].icon = menu[i].icon

\* C1 witness: the dashboard is rendered with a menu of two different entries.
C1_Witness ==
    /\ view.layout = "dashboard"
    /\ Len(menu) = 2
    /\ menu[1] # menu[2]
    /\ Len(view.sidebar.content) = 2

\* C2 (as claimed): a visitor without a session who asks for /dashboard, by URL
\* or by a link, is not rendered the dashboard and ends up on /login.
C2_UnauthenticatedRedirected ==
    [][(/\ session = NoSession
        /\ \E page \in DashboardPages : Visit("/dashboard", page) \/ ClickLink("/dashboard", page))
       => (path' = "/login" /\ view'.layout # "dashboard" /\ view'.content.main # "Dashboard")]_vars

\* C4: the configuration names Google as its only provider and an adapter over
\* the shared Prisma client, and every session there is was made by that
\* provider and is a database session kept through that adapter.
C4_SingleProviderThroughAdapter ==
    /\ AuthConfig.providers = <<"google">>
    /\ AuthConfig.adapter = [kind |-> "PrismaAdapter", client |-> "@/shared/lib/prisma"]
    /\ session # NoSession =>
        /\ session.provider = "google"
        /\ session.strategy = "database"
        /\ session.adapter = [kind |-> "PrismaAdapter", client |-> "@/shared/lib/prisma"]

\* C4 witness: somebody is signed in.
C4_Witness == session.user \in Users /\ session.provider = "google"

\* C5 (as claimed): the Prisma client is obtained through @/shared/lib/db and
\* through no other path.
C5_PrismaOnlyThroughDb == prismaAccess \subseteq {"@/shared/lib/db"}

\* C6: whoever is signed in, the profile menus of the sidebar footer and of
\* the page header are given the same placeholder user.
C6_ProfileIsPlaceholder ==
    view.layout = "dashboard" =>
        LET placeholder == [name |-> "John Doe", email |-> "6Kt0P@example.com",
                            avatar |-> "https://github.com/brunorocha.png"] IN
        /\ view.sidebar.footer.user = placeholder
        /\ view.content.page = "part_003" => view.content.profile.user = placeholder
        /\ view.content.page = "part_003" => view.content.profile.user = view.sidebar.footer.user

\* C6 witness: a signed-in visitor sees the dashboard page with both profile menus.
C6_Witness ==
    /\ session.user = "bob"
    /\ view.layout = "dashboard"
    /\ view.content.page = "part_003"
    /\ view.content.profile.user.name = "John Doe"

------------------------------------------------------------------------------
\* Properties of DashboardHeader (under SpecHeader).

\* The value the claim expects for instance i: the read of the last event
\* delivered to it, 0 before any.
LastRead(i) ==
    IF seen[i] THEN (IF bodyScrollTop # 0 THEN bodyScrollTop ELSE docScrollTop) ELSE 0

\* C3: offset starts at 0 and follows the last handled scroll event: once the
\* scheduled updates are rendered offset is the value read at that event
\* (body.scrollTop when non-zero, documentElement.scrollTop otherwise), and
\* while updates are pending the one applied last is that value.
C3_OffsetIsLastRead ==
    \A i \in Instances : mounted[i] =>
        IF queue[i] = <<>> THEN offset[i] = LastRead(i)
        ELSE queue[i][Len(queue[i])] = LastRead(i)

\* C3 witness: two events with different reads are pending for one instance.
C3_Witness ==
    \E i \in Instances :
        /\ mounted[i]
        /\ Len(queue[i]) = 2
        /\ queue[i][1] # queue[i][2]
        /\ offset[i] # queue[i][2]

\* C7: the component's own classes hold exactly one of shadow-sm and
\* shadow-none; shadow-sm exactly when `fixed` is truthy and offset > 10.
C7_ShadowToggle ==
    \A i \in Instances : mounted[i] =>
        LET own == OwnClasses(props[i].fixed, offset[i])
            shadows == {k \in 1..Len(own) : own[k] \in {"shadow-sm", "shadow-none"}}
        IN
        /\ Cardinality(shadows) = 1
        /\ ("shadow-sm" \in Range(own)) <=> (props[i].fixed = "true" /\ offset[i] > 10)
        /\ (offset[i] = 10 \/ props[i].fixed \in {"undefined", "false"}) => "shadow-none" \in Range(own)

\* C7 witness: a fixed header at offset exactly 10.
C7_Witness ==
    \E i \in Instances : mounted[i] /\ props[i].fixed = "true" /\ offset[i] = 10

\* C8: a mounted instance has exactly one scroll listener on document, also
\* after it rendered again; an unmounted one has none, and its state stays
\* dropped.
C8_OneListenerWhileMounted ==
    \A i \in Instances :
        /\ mounted[i] => Cardinality(ListenersOf(i)) = 1
        /\ mounted[i] => \E l \in ListenersOf(i) : l.callback = cleanup[i]
        /\ ~mounted[i] => ListenersOf(i) = {} /\ offset[i] = 0 /\ queue[i] = <<>>

\* C8 witness: an instance that rendered again after setOffset, beside one that
\* is not mounted.
C8_Witness ==
    \E i, j \in Instances :
        /\ mounted[i] /\ offset[i] # 0 /\ props[i].host = "other"
        /\ ~mounted[j] /\ seen[i]

\* C9: a scroll event schedules the same value for every mounted instance, and
\* a step that unmounts one instance leaves every other instance's listeners,
\* offset and pending updates as they were.
C9_InstancesIndependent ==
    [][/\ \A i \in Instances : (mounted[i] /\ ~mounted'[i]) =>
            \A j \in Instances \ {i} :
                /\ ListenersOf(j)' = ListenersOf(j)
                /\ mounted'[j] = mounted[j]
                /\ offset'[j] = offset[j]
                /\ queue'[j] = queue[j]
       /\ (\E i \in Instances : Len(queue'[i]) > Len(queue[i])) =>
            \A i, j \in Instances : (mounted[i] /\ mounted[j]) =>
                /\ Len(queue'[i]) = Len(queue[i]) + 1
                /\ queue'[i][Len(queue'[i])] = queue'[j][Len(queue'[j])]]_vars

\* C9 witness: two mounted instances that both rendered the same non-zero read.
C9_Witness ==
    \E i, j \in Instances :
        /\ i # j
        /\ mounted[i] /\ mounted[j]
        /\ seen[i] /\ seen[j]
        /\ offset[i] # 0 /\ offset[i] = offset[j]
        /\ ListenersOf(i) # ListenersOf(j)

\* C10: a header rendered by a dashboard page carries shadow-none, none of the
\* positioning classes of a fixed header, and the classes it has at offset 0.
C10_PageHeaderNeverFixed ==
    \A i \in Instances : (mounted[i] /\ props[i].host \in {"part_003", "part_004"}) =>
        LET classes == HeaderClassName(props[i].fixed, offset[i], props[i].className) IN
        /\ "shadow-none" \in Range(classes)
        /\ "shadow-sm" \notin Range(classes)
        /\ Range(classes) \cap {"header-fixed", "fixed"} = {}
        /\ classes = HeaderClassName(props[i].fixed, 0, props[i].className)

\* C10 witness: a page's header scrolled past the threshold.
C10_Witness ==
    \E i \in Instances : mounted[i] /\ props[i].host = "part_003" /\ offset[i] > 10

------------------------------------------------------------------------------
\* Properties of DashboardLayout (under SpecApp).

====
